---- MODULE Spec2Model ----
(***************************************************************************)
(* JSArray<T, AllocTemplate>: a std::vector with the JavaScript array      *)
(* methods map, reduce, reduceRight, forEach, filter, every, some, sort    *)
(* and toSorted.  The model follows src/unnamed/part_000 (the documented   *)
(* copy of the class); src/unnamed/part_001 and src/jsArray.h hold earlier *)
(* copies of the same methods.                                             *)
(*                                                                         *)
(* The caller owns two JSArray<int> objects, a and b.  A method is called  *)
(* on one of them; a method that returns a new JSArray by value has its    *)
(* result assigned to the other one.  Every loop of the class is modelled  *)
(* one iteration per step, so that the order and number of the callback    *)
(* invocations are visible in the log `calls`.                             *)
(***************************************************************************)
EXTENDS Integers, Sequences, FiniteSets

MaxLen == 3
MaxVal == 2

\* the length up to which a callback that appends lets the sequence grow
MaxGrow == 4

VARIABLES
    heap,     \* the contents of the caller's two JSArray objects
    pc,       \* "idle", "loop" (inside a method's for loop), "exited", "returned", "undefined"
    op,       \* the method running or last run
    self,     \* the object the method was called on (this)
    cb,       \* the callback (or comparator) argument
    i,        \* the loop variable i
    result,   \* the local variable result
    calls,    \* the callback invocations of the running method, in order
    ret,      \* what the method returned
    initValue,\* the initValue argument of reduce and reduceRight
    entry,    \* the contents of *this when the method was called
    header,   \* the copy of the class the program includes
    caller    \* the caller's callable object, of which cb is the method's copy

vars == <<heap, pc, op, self, cb, i, result, calls, ret, initValue, entry, header,
          caller>>

Objects == {"a", "b"}

Other(o) == IF o = "a" THEN "b" ELSE "a"

Values == 0..MaxVal

SeqsUpTo(n, V) == UNION {[1..k -> V] : k \in 0..n}

\* the sequences of the scenarios of the specification's section 8
Scenarios == {<<3, 1, 2>>, <<10, 20, 30>>}

Inputs == SeqsUpTo(MaxLen, Values) \cup Scenarios

InitValues == {0, 100}

(***************************************************************************)
(* The callables the caller passes.  function_traits<F>::argsCount is the  *)
(* field arity; Body is the callable's own code, applied to the arguments  *)
(* the class passes to it.  The index argument is 0-based, as in the code; *)
(* sequences of the model are 1-based.                                     *)
(***************************************************************************)
MapCallbacks ==
    { [name |-> "double", arity |-> 1],
      [name |-> "addIndex", arity |-> 2],
      [name |-> "addIndexSelf", arity |-> 3],
      [name |-> "mirror", arity |-> 3] }

Predicates ==
    { [name |-> "gt1", arity |-> 1],
      [name |-> "evenIndex", arity |-> 2],
      [name |-> "belowLast", arity |-> 3] }

Reducers ==
    { [name |-> "add", arity |-> 2],
      [name |-> "horner", arity |-> 2],
      [name |-> "doubleSum", arity |-> 2],
      [name |-> "hornerIndex", arity |-> 3],
      [name |-> "hornerSelf", arity |-> 4] }

Comparators ==
    { [name |-> "less", arity |-> 2],
      [name |-> "greater", arity |-> 2],
      [name |-> "lessHalf", arity |-> 2],
      [name |-> "lessEq", arity |-> 2] }

Body(f, args) ==
    CASE f.name = "double"       -> args[1] * 2
      [] f.name = "addIndex"     -> args[1] + args[2]
      [] f.name = "addIndexSelf" -> args[1] + args[2]
      [] f.name = "mirror"       -> args[3][Len(args[3]) - args[2]]
      [] f.name = "gt1"          -> args[1] > 1
      [] f.name = "evenIndex"    -> args[2] % 2 = 0
      [] f.name = "belowLast"    -> args[1] < args[3][Len(args[3])]
      [] f.name = "add"          -> args[1] + args[2]
      [] f.name = "horner"       -> args[1] * 2 + args[2]
      [] f.name = "doubleSum"    -> 2 * (args[1] + args[2])
      [] f.name = "hornerIndex"  -> args[1] * 2 + args[2] * (args[3] + 1)
      [] f.name = "hornerSelf"   -> args[1] * 2 + args[2] + args[4][args[3] + 1]
      [] f.name = "less"         -> args[1] < args[2]
      [] f.name = "greater"      -> args[1] > args[2]
      [] f.name = "lessHalf"     -> (args[1] \div 2) < (args[2] \div 2)
      [] f.name = "lessEq"       -> args[1] <= args[2]
      [] f.name = "appendBelow"  -> args[1]
      [] f.name = "throwOn1"     -> args[1]
      [] f.name = "throwOn1Bool" -> args[1] > 1
      [] f.name = "addThrowOn1"  -> args[1] + args[2]
      [] f.name = "lessThrows"   -> args[1] < args[2]
      [] f.name = "counter"      -> f.n + 1
      [] f.name = "firstOnly"    -> f.n + 1 = 1
      [] f.name = "tally"        -> args[1] * 10 + f.n + 1
      [] f.name = "nullary"      -> 0
      [] f.name = "fiveArgs"     -> 0

(***************************************************************************)
(* function_traits<F>.  The callables above are closures (lambdas, whose   *)
(* operator() is const).  A plain function is passed as a function         *)
(* pointer to R(Args...), and an object with a non-const operator() as     *)
(* itself; both declare the parameters and the result of the lambda of the *)
(* same name.  The copies of the class differ in the specializations of    *)
(* function_traits: only src/unnamed/part_000 has the one for function     *)
(* pointers, and in the others a function pointer falls to the primary     *)
(* template, whose decltype(&F::operator()) is ill-formed.                 *)
(***************************************************************************)
Headers == {"part_000", "part_001", "jsArray.h"}

CurrentHeader == "part_000"

Kinded(names, k) ==
    { [name |-> f.name, arity |-> f.arity, kind |-> k] :
        f \in {g \in MapCallbacks \cup Predicates \cup Reducers : g.name \in names} }

FreeFunctions == Kinded({"double", "gt1", "add"}, "function")

Functors == Kinded({"double", "gt1", "add"}, "functor")

Kind(f) == IF "kind" \in DOMAIN f THEN f.kind ELSE "lambda"

\* callables whose parameter count no method accepts
IllShaped == {[name |-> "nullary", arity |-> 0], [name |-> "fiveArgs", arity |-> 5]}

\* the declared result type of the callable
DeclaredResult(f) ==
    IF f.name \in {"gt1", "evenIndex", "belowLast", "less", "greater", "lessHalf", "lessEq",
                   "firstOnly", "throwOn1Bool", "lessThrows"}
    THEN "bool" ELSE "int"

function_traits(F) ==
    IF Kind(F) = "function" /\ header # "part_000"
    THEN [resolved |-> FALSE, argsCount |-> 0, return_type |-> "none"]
    ELSE [resolved |-> TRUE, argsCount |-> F.arity, return_type |-> DeclaredResult(F)]

\* mutant: the elementwise methods take the arities of the folds as well
standardShapeAssertLenient(argsCount) == argsCount <= 4 /\ argsCount >= 1

\* the static_assert of standardCallbackHandler
standardShapeAssert(argsCount) == argsCount <= 3 /\ argsCount >= 1

\* the static_assert of reduceCallbackHandler
reduceShapeAssert(argsCount) == argsCount <= 4 /\ argsCount >= 2

\* the static_assert of filter, every and some
boolResultAssert(return_type) == return_type = "bool"

\* the methods each copy of the class declares
Declares(name) ==
    header = "jsArray.h" => name \notin {"forEach", "sort()", "toSorted()"}

\* the call of the method with callable f translates
Accepts(name, f) ==
    LET t == function_traits(f) IN
    /\ t.resolved
    /\ name \in {"map", "forEach", "filter", "every", "some"} => standardShapeAssert(t.argsCount)
    /\ name \in {"reduce", "reduceRight"} => reduceShapeAssert(t.argsCount)
    /\ name \in {"filter", "every", "some"} => boolResultAssert(t.return_type)

\* the body of the callable leaves by an exception instead of returning
Throws(f, args) ==
    CASE f.name \in {"throwOn1", "throwOn1Bool"} -> args[1] = 1
      [] f.name = "addThrowOn1"                  -> args[2] = 1
      [] f.name = "lessThrows"                   -> TRUE
      [] OTHER                                   -> FALSE

(***************************************************************************)
(* One invocation of the callback through the dispatcher: the arguments    *)
(* passed (args), the object the view argument refers to (view), and the   *)
(* value the callback returned (val).                                      *)
(***************************************************************************)
\* mutant: in map, the view passed to the callback is the result being built
standardCallbackHandlerResultView(callback, currLoopIndex) ==
    LET elem == heap[self][currLoopIndex + 1]
        whole == IF op = "map" THEN result ELSE heap[self]
        args == IF callback.arity = 1 THEN <<elem>>
                ELSE IF callback.arity = 2 THEN <<elem, currLoopIndex>>
                ELSE <<elem, currLoopIndex, whole>>
    IN  [at   |-> currLoopIndex,
         fn   |-> callback,
         args |-> args,
         threw |-> Throws(callback, args),
         view |-> IF callback.arity = 3 THEN self ELSE "none",
         val  |-> Body(callback, args)]

standardCallbackHandler(callback, currLoopIndex) ==
    LET elem == heap[self][currLoopIndex + 1]
        args == IF callback.arity = 1 THEN <<elem>>
                ELSE IF callback.arity = 2 THEN <<elem, currLoopIndex>>
                ELSE <<elem, currLoopIndex, heap[self]>>
    IN  [at   |-> currLoopIndex,
         fn   |-> callback,
         args |-> args,
         threw |-> Throws(callback, args),
         view |-> IF callback.arity = 3 THEN self ELSE "none",
         val  |-> Body(callback, args)]

reduceCallbackHandler(callback, accumulator, currLoopIndex) ==
    LET elem == heap[self][currLoopIndex + 1]
        args == IF callback.arity = 2 THEN <<accumulator, elem>>
                ELSE IF callback.arity = 3 THEN <<accumulator, elem, currLoopIndex>>
                ELSE <<accumulator, elem, currLoopIndex, heap[self]>>
    IN  [at   |-> currLoopIndex,
         fn   |-> callback,
         args |-> args,
         threw |-> Throws(callback, args),
         view |-> IF callback.arity = 4 THEN self ELSE "none",
         val  |-> Body(callback, args)]

size(o) == Len(heap[o])

\* a closure that captures the sequence it is passed to by reference and
\* pushes the element it is given back onto it while the sequence is shorter
\* than MaxGrow:  [&a](int x) { if (a.size() < MaxGrow) a.push_back(x); return x; }
Appender == [name |-> "appendBelow", arity |-> 1]

\* the objects after the body of the callback has run
Effect(f, args) ==
    IF f.name = "appendBelow" /\ size(self) < MaxGrow
    THEN [heap EXCEPT ![self] = Append(@, args[1])]
    ELSE heap

NoCallback == [name |-> "none", arity |-> 0]

InitWith(H) ==
    /\ header \in H
    /\ caller = NoCallback
    /\ heap \in {[o \in Objects |-> IF o = "a" THEN s ELSE <<>>] : s \in Inputs}
    /\ pc = "idle"
    /\ op = "none"
    /\ self = "a"
    /\ cb = NoCallback
    /\ i = 0
    /\ result = <<>>
    /\ calls = <<>>
    /\ ret = [kind |-> "none"]
    /\ initValue = 0
    /\ entry = <<>>

Init == InitWith({CurrentHeader})

\* the program includes any of the copies of the class
InitCopies == InitWith(Headers)

\* a method can be called when no method is running; the objects it is
\* called on are kept within the inputs
Callable(o) ==
    /\ pc = "idle"
    /\ heap[o] \in Inputs

\* the caller calls a traversal method, or one that returns a new JSArray,
\* with its other object empty
Fresh(o) == heap[Other(o)] = <<>>

\* the method's entry: this, the callback, i = 0 and the local result
Enter(name, o, f, r) ==
    /\ Callable(o)
    /\ Fresh(o)
    /\ Declares(name)
    /\ Accepts(name, f)
    /\ UNCHANGED header
    /\ caller' = f
    /\ initValue' = (IF name \in {"reduce", "reduceRight"} THEN r ELSE 0)
    /\ pc' = "loop"
    /\ op' = name
    /\ self' = o
    /\ cb' = f
    /\ i' = 0
    /\ result' = r
    /\ calls' = <<>>
    /\ ret' = [kind |-> "none"]
    /\ entry' = heap[o]
    /\ UNCHANGED heap

\* a JSArray returned by value, assigned to the caller's other object
ReturnNew(r) ==
    /\ heap' = [heap EXCEPT ![Other(self)] = r]
    /\ ret' = [kind |-> "new", id |-> Other(self)]
    /\ pc' = "returned"

ReturnValue(v) ==
    /\ ret' = [kind |-> "value", val |-> v]
    /\ pc' = "returned"
    /\ UNCHANGED heap

Frame == UNCHANGED <<op, self, cb, initValue, entry, header, caller>>

\* a callable the method's static_asserts or function_traits refuse: the
\* program does not translate, no method is entered and nothing of it runs;
\* ret names the method whose instantiation is ill-formed
reject(name, o, f) ==
    /\ Callable(o)
    /\ Fresh(o)
    /\ Declares(name)
    /\ ~Accepts(name, f)
    /\ pc' = "rejected"
    /\ op' = "none"
    /\ self' = o
    /\ cb' = f
    /\ i' = 0
    /\ result' = <<>>
    /\ calls' = <<>>
    /\ ret' = [kind |-> "ill-formed", method |-> name]
    /\ initValue' = 0
    /\ entry' = heap[o]
    /\ caller' = f
    /\ UNCHANGED <<heap, header>>

\* mutant: the exception leaves the handler and the method and reaches the
\* caller of the method
standardThrowPropagates ==
    /\ pc = "loop" /\ op \in {"map", "forEach", "filter", "every", "some"}
    /\ i < size(self)
    /\ op = "some" => ~result
    /\ LET c == standardCallbackHandler(cb, i)
       IN  /\ c.threw
           /\ calls' = Append(calls, c)
    /\ pc' = "returned"
    /\ ret' = [kind |-> "exception"]
    /\ UNCHANGED <<heap, i, result>>
    /\ Frame

\* an exception leaves callback(...) inside standardCallbackHandler, which
\* is declared noexcept: std::terminate is called there, and the program is
\* over with every object as it was
standardThrow ==
    /\ pc = "loop" /\ op \in {"map", "forEach", "filter", "every", "some"}
    /\ i < size(self)
    /\ op = "some" => ~result
    /\ LET c == standardCallbackHandler(cb, i)
       IN  /\ c.threw
           /\ calls' = Append(calls, c)
    /\ pc' = "terminated"
    /\ UNCHANGED <<heap, i, result, ret>>
    /\ Frame

\* the same inside reduceCallbackHandler, also noexcept
reduceThrow ==
    /\ pc = "loop" /\ op \in {"reduce", "reduceRight"}
    /\ i < size(self)
    /\ LET c == reduceCallbackHandler(cb, result,
                    IF op = "reduce" THEN i ELSE size(self) - 1 - i)
       IN  /\ c.threw
           /\ calls' = Append(calls, c)
    /\ pc' = "terminated"
    /\ UNCHANGED <<heap, i, result, ret>>
    /\ Frame

\* callables that leave by an exception when the element is 1
ThrowingStandard == {[name |-> "throwOn1", arity |-> 1]}

ThrowingPredicates == {[name |-> "throwOn1Bool", arity |-> 1]}

ThrowingReducers == {[name |-> "addThrowOn1", arity |-> 2]}

\* a comparator that leaves by an exception whenever it is called
ThrowingComparators == {[name |-> "lessThrows", arity |-> 2]}

\* callables that keep a counter inside themselves (a value-captured n of a
\* mutable lambda, or a data member) and increment it in every invocation
\* before they use it; the caller has used them n times before the call
StatefulStandard == {[name |-> "counter", arity |-> 1, n |-> k] : k \in 0..1}

StatefulPredicates == {[name |-> "firstOnly", arity |-> 1, n |-> k] : k \in 0..1}

StatefulReducers == {[name |-> "tally", arity |-> 2, n |-> k] : k \in 0..1}

\* the callable after one invocation of it
After(f) == IF "n" \in DOMAIN f THEN [f EXCEPT !.n = @ + 1] ELSE f

\* the callables the caller passes to each family of methods
OfferedStandard ==
    MapCallbacks \cup {f \in FreeFunctions \cup Functors : f.name = "double"}
        \cup IllShaped \cup {f \in Reducers : f.arity = 4}

OfferedPredicate ==
    Predicates \cup {f \in FreeFunctions \cup Functors : f.name = "gt1"}
        \cup IllShaped \cup {f \in MapCallbacks : f.arity <= 2}

OfferedReducer ==
    Reducers \cup {f \in FreeFunctions \cup Functors : f.name = "add"}
        \cup IllShaped \cup {f \in MapCallbacks : f.arity = 1}

(***************************************************************************)
(* map: result(this->size()) is value-initialized, then result[i] is       *)
(* assigned for each i while i < this->size().                             *)
(***************************************************************************)
mapCall(o, f) ==
    /\ Enter("map", o, f, [k \in 1..size(o) |-> 0])

\* mutant: the value is pushed back onto the already sized result
mapLoopPushBack ==
    /\ pc = "loop" /\ op = "map"
    /\ i < size(self)
    /\ LET c == standardCallbackHandler(cb, i)
       IN  /\ result' = Append(result, c.val)
           /\ calls' = Append(calls, c)
    /\ i' = i + 1
    /\ UNCHANGED <<heap, pc, ret>>
    /\ Frame

\* mutant: the handler takes the callable by reference, so the method's
\* callable keeps what the invocation did to it
mapLoopSharedCallable ==
    /\ pc = "loop" /\ op = "map"
    /\ i < size(self)
    /\ (i + 1) \in DOMAIN result
    /\ LET c == standardCallbackHandler(cb, i)
       IN  /\ result' = [result EXCEPT ![i + 1] = c.val]
           /\ calls' = Append(calls, c)
           /\ heap' = Effect(cb, c.args)
           /\ cb' = After(c.fn)
    /\ i' = i + 1
    /\ UNCHANGED <<pc, ret, op, self, initValue, entry, header, caller>>

\* mutant: the value is also assigned to the element of the source
mapLoopInPlace ==
    /\ pc = "loop" /\ op = "map"
    /\ i < size(self)
    /\ (i + 1) \in DOMAIN result
    /\ LET c == standardCallbackHandler(cb, i)
       IN  /\ result' = [result EXCEPT ![i + 1] = c.val]
           /\ calls' = Append(calls, c)
           /\ heap' = [heap EXCEPT ![self][i + 1] = c.val]
    /\ i' = i + 1
    /\ UNCHANGED <<pc, ret>>
    /\ Frame

mapLoop ==
    /\ pc = "loop" /\ op = "map"
    /\ i < size(self)
    /\ (i + 1) \in DOMAIN result
    /\ LET c == standardCallbackHandler(cb, i)
       IN  /\ ~c.threw
           /\ result' = [result EXCEPT ![i + 1] = c.val]
           /\ calls' = Append(calls, c)
           /\ heap' = Effect(cb, c.args)
    /\ i' = i + 1
    /\ UNCHANGED <<pc, ret>>
    /\ Frame

\* the loop reaches an index past the end of result (the source has grown
\* since result was sized): the callback is invoked and its value is
\* assigned through result[i] outside the storage of result, which is
\* undefined behaviour; nothing is known of the program from there on
mapOverrun ==
    /\ pc = "loop" /\ op = "map"
    /\ i < size(self)
    /\ (i + 1) \notin DOMAIN result
    /\ LET c == standardCallbackHandler(cb, i)
       IN  /\ calls' = Append(calls, c)
           /\ heap' = Effect(cb, c.args)
    /\ pc' = "undefined"
    /\ UNCHANGED <<i, result, ret>>
    /\ Frame

mapReturn ==
    /\ pc = "loop" /\ op = "map"
    /\ ~(i < size(self))
    /\ ReturnNew(result)
    /\ UNCHANGED <<i, result, calls>>
    /\ Frame

(***************************************************************************)
(* reduce and reduceRight: result = initValue, then result is assigned the *)
(* callback's value for each i; reduceRight passes size() - 1 - i.         *)
(***************************************************************************)
reduceCall(o, f, v) ==
    /\ Enter("reduce", o, f, v)

\* mutant: every invocation is passed initValue as the accumulator
reduceLoopInitValue ==
    /\ pc = "loop" /\ op = "reduce"
    /\ i < size(self)
    /\ LET c == reduceCallbackHandler(cb, initValue, i)
       IN  /\ result' = c.val
           /\ calls' = Append(calls, c)
    /\ i' = i + 1
    /\ UNCHANGED <<heap, pc, ret>>
    /\ Frame

reduceLoop ==
    /\ pc = "loop" /\ op = "reduce"
    /\ i < size(self)
    /\ LET c == reduceCallbackHandler(cb, result, i)
       IN  /\ ~c.threw
           /\ result' = c.val
           /\ calls' = Append(calls, c)
    /\ i' = i + 1
    /\ UNCHANGED <<heap, pc, ret>>
    /\ Frame

\* mutant: initValue is returned instead of the accumulator
reduceReturnInitValue ==
    /\ pc = "loop" /\ op = "reduce"
    /\ ~(i < size(self))
    /\ ReturnValue(initValue)
    /\ UNCHANGED <<i, result, calls>>
    /\ Frame

reduceReturn ==
    /\ pc = "loop" /\ op = "reduce"
    /\ ~(i < size(self))
    /\ ReturnValue(result)
    /\ UNCHANGED <<i, result, calls>>
    /\ Frame

reduceRightCall(o, f, v) ==
    /\ Enter("reduceRight", o, f, v)

\* mutant: the handler is passed i, so the elements are visited ascending
reduceRightLoopAscending ==
    /\ pc = "loop" /\ op = "reduceRight"
    /\ i < size(self)
    /\ LET c == reduceCallbackHandler(cb, result, i)
       IN  /\ result' = c.val
           /\ calls' = Append(calls, c)
    /\ i' = i + 1
    /\ UNCHANGED <<heap, pc, ret>>
    /\ Frame

reduceRightLoop ==
    /\ pc = "loop" /\ op = "reduceRight"
    /\ i < size(self)
    /\ LET c == reduceCallbackHandler(cb, result, size(self) - 1 - i)
       IN  /\ ~c.threw
           /\ result' = c.val
           /\ calls' = Append(calls, c)
    /\ i' = i + 1
    /\ UNCHANGED <<heap, pc, ret>>
    /\ Frame

reduceRightReturn ==
    /\ pc = "loop" /\ op = "reduceRight"
    /\ ~(i < size(self))
    /\ ReturnValue(result)
    /\ UNCHANGED <<i, result, calls>>
    /\ Frame

(***************************************************************************)
(* forEach: the callback's value is discarded; nothing is returned.        *)
(***************************************************************************)
forEachCall(o, f) ==
    /\ Enter("forEach", o, f, <<>>)

\* mutant: the callback is invoked twice for every index
forEachLoopTwice ==
    /\ pc = "loop" /\ op = "forEach"
    /\ i < size(self)
    /\ LET c == standardCallbackHandler(cb, i)
       IN  /\ calls' = Append(Append(calls, c), c)
           /\ heap' = Effect(cb, c.args)
    /\ i' = i + 1
    /\ UNCHANGED <<pc, ret, result>>
    /\ Frame

forEachLoop ==
    /\ pc = "loop" /\ op = "forEach"
    /\ i < size(self)
    /\ LET c == standardCallbackHandler(cb, i)
       IN  /\ ~c.threw
           /\ calls' = Append(calls, c)
           /\ heap' = Effect(cb, c.args)
    /\ i' = i + 1
    /\ UNCHANGED <<pc, ret, result>>
    /\ Frame

forEachReturn ==
    /\ pc = "loop" /\ op = "forEach"
    /\ ~(i < size(self))
    /\ ret' = [kind |-> "void"]
    /\ pc' = "returned"
    /\ UNCHANGED <<heap, i, result, calls>>
    /\ Frame

(***************************************************************************)
(* filter: result starts empty; the element at i is pushed back when the   *)
(* callback returns true.                                                  *)
(***************************************************************************)
filterCall(o, f) ==
    /\ Enter("filter", o, f, <<>>)

\* mutant: the element is pushed back when the callback returns false
filterLoopInverted ==
    /\ pc = "loop" /\ op = "filter"
    /\ i < size(self)
    /\ LET c == standardCallbackHandler(cb, i)
       IN  /\ result' = IF c.val THEN result ELSE Append(result, heap[self][i + 1])
           /\ calls' = Append(calls, c)
    /\ i' = i + 1
    /\ UNCHANGED <<heap, pc, ret>>
    /\ Frame

\* mutant: the first element is kept whatever the callback returns
filterLoopKeepsFirst ==
    /\ pc = "loop" /\ op = "filter"
    /\ i < size(self)
    /\ LET c == standardCallbackHandler(cb, i)
       IN  /\ result' = IF c.val \/ i = 0 THEN Append(result, heap[self][i + 1]) ELSE result
           /\ calls' = Append(calls, c)
    /\ i' = i + 1
    /\ UNCHANGED <<heap, pc, ret>>
    /\ Frame

filterLoop ==
    /\ pc = "loop" /\ op = "filter"
    /\ i < size(self)
    /\ LET c == standardCallbackHandler(cb, i)
       IN  /\ ~c.threw
           /\ result' = IF c.val THEN Append(result, heap[self][i + 1]) ELSE result
           /\ calls' = Append(calls, c)
    /\ i' = i + 1
    /\ UNCHANGED <<heap, pc, ret>>
    /\ Frame

filterReturn ==
    /\ pc = "loop" /\ op = "filter"
    /\ ~(i < size(self))
    /\ ReturnNew(result)
    /\ UNCHANGED <<i, result, calls>>
    /\ Frame

(***************************************************************************)
(* every: for (; i < size() && handler(callback, i); i += 1) {} and then   *)
(* return i == size().  The loop is left either by i reaching size() or by *)
(* the callback returning false, with i not incremented.                   *)
(***************************************************************************)
everyCall(o, f) ==
    /\ Enter("every", o, f, <<>>)

\* mutant: i is incremented whatever the callback returned
everyLoopNoExit ==
    /\ pc = "loop" /\ op = "every"
    /\ i < size(self)
    /\ calls' = Append(calls, standardCallbackHandler(cb, i))
    /\ i' = i + 1
    /\ UNCHANGED <<heap, pc, ret, result>>
    /\ Frame

everyLoop ==
    /\ pc = "loop" /\ op = "every"
    /\ i < size(self)
    /\ LET c == standardCallbackHandler(cb, i)
       IN  /\ ~c.threw
           /\ calls' = Append(calls, c)
           /\ IF c.val
                 THEN i' = i + 1 /\ pc' = "loop"
                 ELSE i' = i /\ pc' = "exited"
    /\ UNCHANGED <<heap, ret, result>>
    /\ Frame

everyReturn ==
    /\ op = "every"
    /\ \/ pc = "exited"
       \/ pc = "loop" /\ ~(i < size(self))
    /\ ReturnValue(i = size(self))
    /\ UNCHANGED <<i, result, calls>>
    /\ Frame

(***************************************************************************)
(* some: result = false; the loop runs while i < size() && !result.        *)
(***************************************************************************)
someCall(o, f) ==
    /\ Enter("some", o, f, FALSE)

\* mutant: the loop condition is i < size() alone
someLoopNoExit ==
    /\ pc = "loop" /\ op = "some"
    /\ i < size(self)
    /\ LET c == standardCallbackHandler(cb, i)
       IN  /\ result' = c.val
           /\ calls' = Append(calls, c)
    /\ i' = i + 1
    /\ UNCHANGED <<heap, pc, ret>>
    /\ Frame

someLoop ==
    /\ pc = "loop" /\ op = "some"
    /\ i < size(self) /\ ~result
    /\ LET c == standardCallbackHandler(cb, i)
       IN  /\ ~c.threw
           /\ result' = c.val
           /\ calls' = Append(calls, c)
    /\ i' = i + 1
    /\ UNCHANGED <<heap, pc, ret>>
    /\ Frame

\* mutant: the value returned is that of every, i == size()
someReturnLikeEvery ==
    /\ pc = "loop" /\ op = "some"
    /\ ~(i < size(self) /\ ~result)
    /\ ReturnValue(i = size(self))
    /\ UNCHANGED <<i, result, calls>>
    /\ Frame

someReturn ==
    /\ pc = "loop" /\ op = "some"
    /\ ~(i < size(self) /\ ~result)
    /\ ReturnValue(result)
    /\ UNCHANGED <<i, result, calls>>
    /\ Frame

(***************************************************************************)
(* std::sort(first, last, comp).  The library sorts in place and is not    *)
(* stable: every arrangement in which no element is ordered before an      *)
(* earlier one is a possible outcome.  The outcomes are built by inserting *)
(* the elements one by one at every place that keeps the sequence ordered. *)
(* A comparator that is no strict weak ordering on the elements is         *)
(* undefined behaviour.                                                    *)
(***************************************************************************)
Compare(comp, x, y) == Body(comp, <<x, y>>)

InsertAt(t, k, x) == SubSeq(t, 1, k) \o <<x>> \o SubSeq(t, k + 1, Len(t))

InsertOrdered(t, x, comp) ==
    { InsertAt(t, k, x) : k \in
        { k \in 0..Len(t) :
            /\ \A j \in 1..k : ~Compare(comp, x, t[j])
            /\ \A j \in (k + 1)..Len(t) : ~Compare(comp, t[j], x) } }

RECURSIVE stdSort(_, _)
stdSort(s, comp) ==
    IF s = <<>> THEN {<<>>}
    ELSE UNION { InsertOrdered(t, s[Len(s)], comp) :
                    t \in stdSort(SubSeq(s, 1, Len(s) - 1), comp) }

Elements(s) == {s[k] : k \in DOMAIN s}

IsStrictWeakOrdering(comp, V) ==
    LET lt(x, y) == Compare(comp, x, y)
        eq(x, y) == ~lt(x, y) /\ ~lt(y, x)
    IN  /\ \A x \in V : ~lt(x, x)
        /\ \A x, y, z \in V : lt(x, y) /\ lt(y, z) => lt(x, z)
        /\ \A x, y, z \in V : eq(x, y) /\ eq(y, z) => eq(x, z)

\* the lambda [](const T& a, const T& b){return a < b;} of sort() and toSorted()
DefaultCompare == [name |-> "less", arity |-> 2]

\* a sort method is one step: the entry, std::sort and the return
EnterSort(name, o, comp) ==
    /\ Callable(o)
    /\ op' = name
    /\ self' = o
    /\ cb' = comp
    /\ i' = 0
    /\ calls' = <<>>
    /\ entry' = heap[o]
    /\ initValue' = 0
    /\ caller' = comp
    /\ UNCHANGED header

\* std::sort calls the comparator when there are two elements to compare,
\* first for the second element and the first
SortThrows(o, comp) ==
    /\ Len(heap[o]) >= 2
    /\ Throws(comp, <<heap[o][2], heap[o][1]>>)

\* the comparator leaves by an exception inside sort(F) or toSorted(F),
\* which are declared noexcept: std::terminate is called
sortThrow(name, o, comp) ==
    /\ EnterSort(name, o, comp)
    /\ name = "toSorted" => Fresh(o)
    /\ SortThrows(o, comp)
    /\ pc' = "terminated"
    /\ UNCHANGED <<heap, result, ret>>

\* mutant: a copy is sorted and returned, *this is left as it was
sortInPlaceOnCopy(o, comp) ==
    /\ EnterSort("sort", o, comp)
    /\ IsStrictWeakOrdering(comp, Elements(heap[o]))
    /\ \E t \in stdSort(heap[o], comp) : heap' = [heap EXCEPT ![Other(o)] = t]
    /\ result' = <<>>
    /\ ret' = [kind |-> "new", id |-> Other(o)]
    /\ pc' = "returned"

sortInPlace(o, comp) ==
    /\ EnterSort("sort", o, comp)
    /\ ~SortThrows(o, comp)
    /\ IsStrictWeakOrdering(comp, Elements(heap[o]))
    /\ \E t \in stdSort(heap[o], comp) : heap' = [heap EXCEPT ![o] = t]
    /\ result' = <<>>
    /\ ret' = [kind |-> "ref", id |-> o]
    /\ pc' = "returned"

\* mutant: result is bound to *this, which is sorted along with the result
sortCopyAliased(o, comp) ==
    /\ EnterSort("toSorted", o, comp)
    /\ Fresh(o)
    /\ IsStrictWeakOrdering(comp, Elements(heap[o]))
    /\ \E t \in stdSort(heap[o], comp) :
          /\ result' = t
          /\ heap' = [p \in Objects |-> t]
    /\ ret' = [kind |-> "new", id |-> Other(o)]
    /\ pc' = "returned"

sortCopy(o, comp) ==
    /\ EnterSort("toSorted", o, comp)
    /\ Fresh(o)
    /\ ~SortThrows(o, comp)
    /\ IsStrictWeakOrdering(comp, Elements(heap[o]))
    /\ \E t \in stdSort(heap[o], comp) :
          /\ result' = t
          /\ heap' = [heap EXCEPT ![Other(o)] = t]
    /\ ret' = [kind |-> "new", id |-> Other(o)]
    /\ pc' = "returned"

sort(o) == Declares("sort()") /\ sortInPlace(o, DefaultCompare)

sortCmp(o, compareFunc) == sortInPlace(o, compareFunc)

toSorted(o) == Declares("toSorted()") /\ sortCopy(o, DefaultCompare)

toSortedCmp(o, compareFunc) == sortCopy(o, compareFunc)

\* std::sort with a comparator that is no strict weak ordering: the
\* behaviour is undefined and nothing is known of the program afterwards
sortUndefined(name, o, compareFunc) ==
    /\ EnterSort(name, o, compareFunc)
    /\ ~IsStrictWeakOrdering(compareFunc, Elements(heap[o]))
    /\ pc' = "undefined"
    /\ UNCHANGED <<heap, result, ret>>

\* the caller's statement that called the method is over
finish ==
    /\ pc = "returned"
    /\ pc' = "idle"
    /\ op' = "none"
    /\ self' = "a"
    /\ cb' = NoCallback
    /\ i' = 0
    /\ result' = <<>>
    /\ calls' = <<>>
    /\ ret' = [kind |-> "none"]
    /\ initValue' = 0
    /\ entry' = <<>>
    /\ caller' = NoCallback
    /\ UNCHANGED <<heap, header>>

\* std::vector::clear, inherited: the caller empties one of its objects
clear(o) ==
    /\ pc = "idle"
    /\ heap[o] # <<>>
    /\ heap' = [heap EXCEPT ![o] = <<>>]
    /\ UNCHANGED <<pc, op, self, cb, i, result, calls, ret, initValue, entry, header,
                   caller>>

Next ==
    \/ \E o \in Objects, f \in OfferedStandard : mapCall(o, f)
    \/ mapLoop
    \/ mapReturn
    \/ \E o \in Objects, f \in OfferedReducer, v \in InitValues : reduceCall(o, f, v)
    \/ reduceLoop
    \/ reduceReturn
    \/ \E o \in Objects, f \in OfferedReducer, v \in InitValues : reduceRightCall(o, f, v)
    \/ reduceRightLoop
    \/ reduceRightReturn
    \/ \E o \in Objects, f \in OfferedStandard : forEachCall(o, f)
    \/ forEachLoop
    \/ forEachReturn
    \/ \E o \in Objects, f \in OfferedPredicate : filterCall(o, f)
    \/ filterLoop
    \/ filterReturn
    \/ \E o \in Objects, f \in OfferedPredicate : everyCall(o, f)
    \/ everyLoop
    \/ everyReturn
    \/ \E o \in Objects, f \in OfferedPredicate : someCall(o, f)
    \/ someLoop
    \/ someReturn
    \/ \E n \in {"map", "forEach"}, o \in Objects, f \in OfferedStandard : reject(n, o, f)
    \/ \E n \in {"filter", "every", "some"}, o \in Objects, f \in OfferedPredicate : reject(n, o, f)
    \/ \E n \in {"reduce", "reduceRight"}, o \in Objects, f \in OfferedReducer : reject(n, o, f)
    \/ \E o \in Objects : sort(o)
    \/ \E o \in Objects, f \in Comparators : sortCmp(o, f)
    \/ \E o \in Objects : toSorted(o)
    \/ \E o \in Objects, f \in Comparators : toSortedCmp(o, f)
    \/ \E n \in {"sort", "toSorted"}, o \in Objects, f \in Comparators : sortUndefined(n, o, f)
    \/ finish
    \/ \E o \in Objects : clear(o)

Spec == Init /\ [][Next]_vars

\* the caller also passes forEach a callback that appends to the sequence
NextMutating ==
    \/ Next
    \/ \E o \in Objects : forEachCall(o, Appender)
    \/ \E o \in Objects : mapCall(o, Appender)
    \/ mapOverrun

SpecMutating == Init /\ [][NextMutating]_vars

\* the caller passes callables that change their own state
NextStateful ==
    \/ \E o \in Objects, f \in StatefulStandard : mapCall(o, f)
    \/ mapLoop
    \/ mapReturn
    \/ \E o \in Objects, f \in StatefulStandard : forEachCall(o, f)
    \/ forEachLoop
    \/ forEachReturn
    \/ \E o \in Objects, f \in StatefulPredicates : filterCall(o, f)
    \/ filterLoop
    \/ filterReturn
    \/ \E o \in Objects, f \in StatefulPredicates : everyCall(o, f)
    \/ everyLoop
    \/ everyReturn
    \/ \E o \in Objects, f \in StatefulPredicates : someCall(o, f)
    \/ someLoop
    \/ someReturn
    \/ \E o \in Objects, f \in StatefulReducers, v \in InitValues : reduceCall(o, f, v)
    \/ reduceLoop
    \/ reduceReturn
    \/ \E o \in Objects, f \in StatefulReducers, v \in InitValues : reduceRightCall(o, f, v)
    \/ reduceRightLoop
    \/ reduceRightReturn
    \/ finish
    \/ \E o \in Objects : clear(o)

SpecStateful == Init /\ [][NextStateful]_vars

\* the caller passes callables that leave by an exception
NextThrowing ==
    \/ \E o \in Objects, f \in ThrowingStandard : mapCall(o, f)
    \/ mapLoop
    \/ mapReturn
    \/ \E o \in Objects, f \in ThrowingStandard : forEachCall(o, f)
    \/ forEachLoop
    \/ forEachReturn
    \/ \E o \in Objects, f \in ThrowingPredicates : filterCall(o, f)
    \/ filterLoop
    \/ filterReturn
    \/ \E o \in Objects, f \in ThrowingPredicates : everyCall(o, f)
    \/ everyLoop
    \/ everyReturn
    \/ \E o \in Objects, f \in ThrowingPredicates : someCall(o, f)
    \/ someLoop
    \/ someReturn
    \/ \E o \in Objects, f \in ThrowingReducers, v \in InitValues : reduceCall(o, f, v)
    \/ reduceLoop
    \/ reduceReturn
    \/ \E o \in Objects, f \in ThrowingReducers, v \in InitValues : reduceRightCall(o, f, v)
    \/ reduceRightLoop
    \/ reduceRightReturn
    \/ standardThrow
    \/ reduceThrow
    \/ \E o \in Objects, f \in ThrowingComparators : sortCmp(o, f)
    \/ \E o \in Objects, f \in ThrowingComparators : toSortedCmp(o, f)
    \/ \E n \in {"sort", "toSorted"}, o \in Objects, f \in ThrowingComparators :
          sortThrow(n, o, f)
    \/ finish
    \/ \E o \in Objects : clear(o)

SpecThrowing == Init /\ [][NextThrowing]_vars

\* the same program with any of the copies of the class
SpecCopies == InitCopies /\ [][Next]_vars

(***************************************************************************)
(* The properties.  S is the sequence the method was called on, as it was  *)
(* at the call (entry); N is its length.                                   *)
(***************************************************************************)
N == Len(entry)

Returned(name) == pc = "returned" /\ op = name

Elementwise == {"map", "forEach", "filter", "every", "some"}

\* the value the callback f yields for the element at position k (1-based)
\* of the sequence S, called in the shape of its arity
ValueAt(f, S, k) ==
    Body(f, IF f.arity = 1 THEN <<S[k]>>
            ELSE IF f.arity = 2 THEN <<S[k], k - 1>>
            ELSE <<S[k], k - 1, S>>)

\* C1: map(S, f) returns a sequence of length exactly N whose element at
\* each index equals the value f returned for the element of S at that
\* index; for empty S the result has length 0; [3,1,2] mapped by x*2 is
\* [6,2,4].
C1_MapResult ==
    Returned("map") =>
        /\ ret.kind = "new"
        /\ Len(heap[ret.id]) = N
        /\ \A k \in 1..N : heap[ret.id][k] = ValueAt(cb, entry, k)
        /\ (entry = <<3, 1, 2>> /\ cb.name = "double") => heap[ret.id] = <<6, 2, 4>>

C1_Witness ==
    /\ Returned("map")
    /\ entry = <<3, 1, 2>>
    /\ cb.name = "double"
    /\ heap[ret.id] = <<6, 2, 4>>

\* C2: in map, forEach, filter, every and some a callback of arity 1 is
\* called with the element only, of arity 2 with the element and its index,
\* of arity 3 with the element, its index and a view of the sequence; the
\* index argument is the position in the source of the element argument and
\* the view is the source sequence, never the partially built result; map
\* of [10,20,30] by f(v, i, self) = v + i is [10,21,32].
C2_CallbackShape ==
    op \in Elementwise =>
        /\ \A k \in 1..Len(calls) :
              LET c == calls[k] IN
              /\ Len(c.args) = cb.arity
              /\ \E p \in 1..N : c.args[1] = entry[p]
              /\ cb.arity >= 2 =>
                    /\ c.args[2] \in 0..(N - 1)
                    /\ entry[c.args[2] + 1] = c.args[1]
              /\ IF cb.arity = 3
                    THEN c.view = self /\ c.args[3] = entry /\ heap[self] = entry
                    ELSE c.view = "none"
        /\ (Returned("map") /\ entry = <<10, 20, 30>> /\ cb.name = "addIndexSelf")
              => heap[ret.id] = <<10, 21, 32>>

C2_Witness ==
    /\ Returned("map")
    /\ entry = <<10, 20, 30>>
    /\ cb.name = "addIndexSelf"
    /\ Len(calls) = 3
    /\ calls[2].args = <<20, 1, <<10, 20, 30>>>>
    /\ heap[ret.id] = <<10, 21, 32>>

\* the accumulator passed to the k-th invocation of a fold's callback
AccBefore(k) == IF k = 1 THEN initValue ELSE calls[k - 1].val

\* the invocations logged so far thread the accumulator over the positions
\* pos(1), pos(2), ... of S, passing index pos(k) - 1 and S as the view
Threaded(pos(_)) ==
    /\ Len(calls) = i
    /\ i <= N
    /\ \A k \in 1..Len(calls) :
          LET c == calls[k] IN
          /\ Len(c.args) = cb.arity
          /\ c.args[1] = AccBefore(k)
          /\ c.args[2] = entry[pos(k)]
          /\ cb.arity >= 3 => c.args[3] = pos(k) - 1
          /\ cb.arity = 4 => c.args[4] = entry /\ c.view = self
    /\ result = AccBefore(Len(calls) + 1)
    /\ pc = "returned" =>
          /\ Len(calls) = N
          /\ ret = [kind |-> "value", val |-> result]
          /\ N = 0 => ret.val = initValue

\* C3: reduce(S, f, init) is the left fold: the accumulator starts at init,
\* indices are visited in ascending order 0..N-1, after each visit the
\* accumulator is the value the callback returned for (accumulator, S[i],
\* [i], [view]), and the final accumulator is returned; for N = 0 the
\* callback is never invoked and the result is init; [3,1,2] reduced by
\* acc + x from 0 is 6.
C3_ReduceLeftFold ==
    op = "reduce" =>
        /\ Threaded(LAMBDA k : k)
        /\ (pc = "returned" /\ entry = <<3, 1, 2>> /\ cb.name = "add" /\ initValue = 0)
              => ret.val = 6

C3_Witness ==
    /\ Returned("reduce")
    /\ entry = <<3, 1, 2>>
    /\ cb.name = "horner"
    /\ initValue = 100
    /\ ret.val = 816

\* C4: reduceRight(S, f, init) visits the elements in descending index
\* order N-1..0, threading the accumulator as reduce does; the index passed
\* with each element is its original position in S (N-1 first, 0 last); for
\* N = 0 the result is init.
C4_ReduceRightFold ==
    op = "reduceRight" => Threaded(LAMBDA k : N + 1 - k)

C4_Witness ==
    /\ Returned("reduceRight")
    /\ entry = <<3, 1, 2>>
    /\ cb.name = "hornerIndex"
    /\ initValue = 0
    /\ Len(calls) = 3
    /\ calls[1].args = <<0, 2, 2>>
    /\ calls[3].args = <<14, 3, 0>>
    /\ ret.val = 31

\* the elements of S at the positions in P, in their order in S
RECURSIVE Pick(_, _)
Pick(S, P) ==
    IF S = <<>> THEN <<>>
    ELSE LET front == Pick(SubSeq(S, 1, Len(S) - 1), P)
         IN  IF Len(S) \in P THEN Append(front, S[Len(S)]) ELSE front

\* the positions of S at which the callback returned true
TruePositions == {k \in 1..N : ValueAt(cb, entry, k)}

\* C5: filter(S, p) returns exactly the elements of S for which the
\* callback returned true, in their original relative order: S[i] once for
\* each index i where p was true and nothing else; it is empty when S is
\* empty; [3,1,2] filtered by x > 1 is [3,2].
C5_FilterResult ==
    Returned("filter") =>
        /\ ret.kind = "new"
        /\ heap[ret.id] = Pick(entry, TruePositions)
        /\ Len(heap[ret.id]) = Cardinality(TruePositions)
        /\ N = 0 => heap[ret.id] = <<>>
        /\ (entry = <<3, 1, 2>> /\ cb.name = "gt1") => heap[ret.id] = <<3, 2>>

C5_Witness ==
    /\ Returned("filter")
    /\ entry = <<3, 1, 2>>
    /\ cb.name = "gt1"
    /\ heap[ret.id] = <<3, 2>>

\* C6: every(S, p) returns true if and only if the callback returns true
\* for all elements of S; it returns true for the empty sequence.
C6_EveryResult ==
    Returned("every") =>
        /\ ret.kind = "value"
        /\ ret.val = (\A k \in 1..N : ValueAt(cb, entry, k))
        /\ N = 0 => ret.val = TRUE

C6_Witness ==
    /\ Returned("every")
    /\ entry = <<2, 0, 2>>
    /\ cb.name = "gt1"
    /\ ret.val = FALSE

\* C7: some(S, p) returns true if and only if the callback returns true for
\* at least one element of S; it returns false for the empty sequence.
C7_SomeResult ==
    Returned("some") =>
        /\ ret.kind = "value"
        /\ ret.val = (\E k \in 1..N : ValueAt(cb, entry, k))
        /\ N = 0 => ret.val = FALSE

C7_Witness ==
    /\ Returned("some")
    /\ entry = <<0, 2, 0>>
    /\ cb.name = "gt1"
    /\ ret.val = TRUE

\* C8: every and some short-circuit: every invokes the callback for indices
\* 0..k only, k the first index at which it returns false, and some for
\* indices 0..k only, k the first index at which it returns true; nothing is
\* invoked after k, and all N indices are visited only when there is no
\* such k before the last index.
C8_ShortCircuit ==
    op \in {"every", "some"} =>
        LET stop == (op = "some")
            n == Len(calls)
        IN  /\ n <= N
            /\ \A k \in 1..n :
                  /\ calls[k].args[1] = entry[k]
                  /\ calls[k].val = ValueAt(cb, entry, k)
                  /\ k < n => calls[k].val # stop
            /\ pc = "returned" => (n = N \/ (n > 0 /\ calls[n].val = stop))

C8_Witness ==
    /\ Returned("every")
    /\ entry = <<2, 0, 2>>
    /\ cb.name = "gt1"
    /\ Len(calls) = 2
    /\ calls[2].val = FALSE

\* t holds the same elements as s, each as many times
IsPermutation(s, t) ==
    /\ Len(s) = Len(t)
    /\ \A v \in Elements(s) \cup Elements(t) :
          Cardinality({k \in DOMAIN s : s[k] = v}) = Cardinality({k \in DOMAIN t : t[k] = v})

\* no element of s is ordered by comp before an earlier one
IsOrdered(s, comp) ==
    \A j, k \in DOMAIN s : j < k => ~Compare(comp, s[k], s[j])

\* C9: sort() and sort(cmp) reorder the sequence's own storage: after the
\* call S is a permutation of its previous contents in which no element is
\* ordered before an earlier one (under the supplied strict weak ordering,
\* less-than for sort()), the length is unchanged, and the value returned is
\* a reference to the same sequence S, not a copy; [3,1,2] sorted is
\* [1,2,3].
C9_SortInPlace ==
    Returned("sort") =>
        /\ ret = [kind |-> "ref", id |-> self]
        /\ Len(heap[self]) = N
        /\ IsPermutation(entry, heap[self])
        /\ IsOrdered(heap[self], cb)
        /\ (entry = <<3, 1, 2>> /\ cb.name = "less") => heap[self] = <<1, 2, 3>>

C9_Witness ==
    /\ Returned("sort")
    /\ entry = <<3, 1, 2>>
    /\ cb.name = "less"
    /\ heap[self] = <<1, 2, 3>>
    /\ ret.id = self

\* C10: toSorted() and toSorted(cmp) do not mutate S: S is element-wise
\* identical before and after the call; the returned sequence is what sort
\* produces on a copy of S (an ordered permutation of S), and it shares no
\* storage with S: it is another object, and any later step that changes S
\* or the result leaves the other unchanged.
C10_ToSortedCopy ==
    [][ /\ (Returned("toSorted"))' =>
            /\ heap'[self'] = entry'
            /\ heap'[self'] = heap[self']
            /\ ret'.kind = "new"
            /\ ret'.id # self'
            /\ IsPermutation(entry', heap'[ret'.id])
            /\ IsOrdered(heap'[ret'.id], cb')
        /\ \A o \in Objects : heap'[o] # heap[o] => heap'[Other(o)] = heap[Other(o)]
      ]_vars

C10_Witness ==
    /\ Returned("toSorted")
    /\ entry = <<3, 1, 2>>
    /\ cb.name = "greater"
    /\ heap[self] = <<3, 1, 2>>
    /\ heap[ret.id] = <<3, 2, 1>>

(***************************************************************************)
(* Shape and result-type errors                                            *)
(***************************************************************************)
ReduceMethods == {"reduce", "reduceRight"}

LegalArity(name, f) ==
    /\ name \in Elementwise => f.arity \in 1..3
    /\ name \in ReduceMethods => f.arity \in 2..4

\* no method runs with a callable whose arity is outside its range, and in
\* the state of a refused call nothing was invoked, produced or changed
C11_NothingRan ==
    /\ op \in Elementwise \cup ReduceMethods => LegalArity(op, cb)
    /\ pc = "rejected" =>
          /\ op = "none"
          /\ calls = <<>>
          /\ result = <<>>
          /\ i = 0
          /\ heap[self] = entry
          /\ heap[Other(self)] = <<>>

\* a call is refused only where it is made, never from inside a traversal,
\* and every call made with an arity outside the range is refused
C11_AtTheCall ==
    /\ pc' = "rejected" /\ pc # "rejected" => pc = "idle" /\ heap' = heap
    /\ (pc = "idle" /\ pc' # "idle" /\ cb'.name # "none"
            /\ ~LegalArity(IF pc' = "rejected" THEN ret'.method ELSE op', cb'))
          => pc' = "rejected"
    /\ pc = "rejected" => pc' = "rejected"

\* C11: a callable whose arity is outside the legal range of the method
\* (outside 1..3 for map, forEach, filter, every, some; outside 2..4 for
\* reduce, reduceRight) is refused before any element is visited: the
\* callback is never invoked, no result is produced, the sequence is
\* unchanged, and the refusal never happens part-way through a traversal.
C11_ShapeMismatch == []C11_NothingRan /\ [][C11_AtTheCall]_vars

C11_Witness ==
    /\ pc = "rejected"
    /\ ret.method = "map"
    /\ cb.arity = 4
    /\ entry = <<3, 1, 2>>
    /\ heap[self] = <<3, 1, 2>>

PredicateMethods == {"filter", "every", "some"}

RECURSIVE Sum(_)
\* the sum of the elements of S
Sum(S) == IF S = <<>> THEN 0 ELSE S[1] + Sum(Tail(S))

\* C12: filter, every and some refuse a callable whose declared result type
\* is not boolean before any element is visited (the callback is never
\* invoked and no result is produced), and a callable that returns boolean
\* and has a legal arity is always accepted.
C12_ResultMismatch ==
    /\ op \in PredicateMethods => DeclaredResult(cb) = "bool"
    /\ (pc = "rejected" /\ ret.method \in PredicateMethods) =>
          /\ calls = <<>> /\ result = <<>> /\ heap[Other(self)] = <<>>
          /\ ~(DeclaredResult(cb) = "bool" /\ LegalArity(ret.method, cb))

\* a refused call of a boolean-predicate method whose callable returns int
C12_Witness ==
    /\ pc = "rejected"
    /\ ret.method = "filter"
    /\ cb.name = "double"
    /\ Kind(cb) = "lambda"
    /\ calls = <<>>
    /\ entry = <<3, 1, 2>>

\* the closure that declares the parameters and the result of f
Lambda(f) == [name |-> f.name, arity |-> f.arity]

\* C13: a plain function, a closure and an object with a call operator that
\* declare the same parameters and result resolve to the same arity and
\* result type, every traversal accepts each of the three kinds, and the
\* result is the one the closure gives.
C13_KindsAlike ==
    /\ cb.name # "none" => function_traits(cb) = function_traits(Lambda(cb))
    /\ pc = "rejected" => ~Accepts(ret.method, Lambda(cb))
    /\ Returned("map") =>
          heap[ret.id] = [k \in 1..N |-> ValueAt(Lambda(cb), entry, k)]
    /\ Returned("filter") =>
          heap[ret.id] = Pick(entry, {k \in 1..N : ValueAt(Lambda(cb), entry, k)})
    /\ (Returned("reduce") /\ cb.name = "add") => ret.val = initValue + Sum(entry)

\* map returned for a plain function and for an object with a non-const
\* call operator what it returns for the closure
C13_Witness ==
    /\ Returned("map")
    /\ Kind(cb) \in {"function", "functor"}
    /\ entry = <<3, 1, 2>>
    /\ heap[ret.id] = <<6, 2, 4>>

(***************************************************************************)
(* The length during a traversal                                           *)
(***************************************************************************)
\* C14: every elementwise method works on a snapshot of length N taken when
\* it is called: it visits at most N elements, its loop bound is N, and a
\* change of the length made by the callback during the traversal (a
\* forEach callback that appends to the same sequence) is not observed.
C14_Snapshot ==
    op \in Elementwise =>
        /\ Len(calls) <= N
        /\ \A k \in 1..Len(calls) : calls[k].at < N
        /\ pc = "returned" => i <= N

\* forEach with the appending callback visited the elements it appended
C14_Witness ==
    /\ Returned("forEach")
    /\ cb = Appender
    /\ entry = <<3, 1, 2>>
    /\ Len(calls) > N
    /\ calls[4].args = <<3>>
    /\ SubSeq(heap[self], 1, 4) = <<3, 1, 2, 3>>

Traversals == Elementwise \cup ReduceMethods

\* the position of the element among the arguments of the callback
ElemArg == IF op \in ReduceMethods THEN 2 ELSE 1

\* nothing is read for N = 0, the index map is about to write is within the
\* result, and no traversal has left the storage of a sequence
C15_InRange ==
    op \in Traversals =>
        /\ N = 0 => calls = <<>>
        /\ (op = "map" /\ pc = "loop" /\ i < size(self)) => (i + 1) \in DOMAIN result
        /\ pc # "undefined"

\* a step that invokes the callback read the element at an index below the
\* length the sequence had at that step; reduceRight's index is the
\* non-negative size - 1 - i
C15_Read ==
    Len(calls') = Len(calls) + 1 =>
        LET c == calls'[Len(calls')] IN
        /\ size(self) > 0
        /\ c.at \in 0..(size(self) - 1)
        /\ c.args[ElemArg] = heap[self][c.at + 1]
        /\ op = "map" => (c.at + 1) \in DOMAIN result'
        /\ op = "reduceRight" => c.at = size(self) - 1 - i /\ c.at >= 0

\* C15: in every reachable state of map, forEach, filter, every, some,
\* reduce and reduceRight each index used to read an element of the source
\* (and, in map, to write the result) lies in 0..N-1; reduceRight's index
\* size-1-i never drops below 0, and nothing is accessed when N = 0.
C15_IndicesInRange == []C15_InRange /\ [][C15_Read]_vars

C15_Witness ==
    /\ Returned("reduceRight")
    /\ entry = <<3, 1, 2>>
    /\ Len(calls) = 3
    /\ calls[1].at = 2
    /\ calls[3].at = 0

(***************************************************************************)
(* Algebraic laws                                                          *)
(***************************************************************************)
\* filter as a function of the sequence and the callback (C5)
filterOf(S, f) == Pick(S, {k \in 1..Len(S) : ValueAt(f, S, k)})

\* S is the result of filtering some sequence by f
FilterImage(S, f) == \E R \in Inputs : filterOf(R, f) = S

\* filtering the result of filter once more returns it unchanged, and filter
\* returns a sequence that is itself a result of filter unchanged
Idempotent ==
    /\ filterOf(heap[ret.id], cb) = heap[ret.id]
    /\ FilterImage(entry, cb) => heap[ret.id] = entry

\* C16 as stated: filter is idempotent for every sequence S and every
\* predicate p, filter(filter(S, p), p) = filter(S, p).
C16_FilterIdempotentAnyPredicate ==
    Returned("filter") => Idempotent

\* C16, amended: filter is idempotent for every sequence S and every
\* predicate p that is given the element only.
C16_FilterIdempotent ==
    (Returned("filter") /\ cb.arity = 1) => Idempotent

\* filter dropped an element, and filtering its result drops nothing more
C16_Witness ==
    /\ Returned("filter")
    /\ cb.name = "gt1"
    /\ entry = <<2, 1, 2>>
    /\ heap[ret.id] = <<2, 2>>
    /\ filterOf(<<2, 2>>, cb) = <<2, 2>>

RECURSIVE reduceOf(_, _, _)
\* reduce as a function: the left fold of S by the two-parameter f from v
reduceOf(S, f, v) ==
    IF S = <<>> THEN v
    ELSE Body(f, <<reduceOf(SubSeq(S, 1, Len(S) - 1), f, v), S[Len(S)]>>)

RECURSIVE reduceRightOf(_, _, _)
\* reduceRight as a function: the last element is combined first
reduceRightOf(S, f, v) ==
    IF S = <<>> THEN v
    ELSE Body(f, <<reduceRightOf(Tail(S), f, v), S[1]>>)

\* the numbers the laws of the callbacks are tried on
Sample == Values \cup InitValues

Commutative(f) ==
    /\ f.arity = 2
    /\ \A a, b \in Sample : Body(f, <<a, b>>) = Body(f, <<b, a>>)

Associative(f) ==
    /\ f.arity = 2
    /\ \A a, b, c \in Sample :
          Body(f, <<Body(f, <<a, b>>), c>>) = Body(f, <<a, Body(f, <<b, c>>)>>)

\* reduce and reduceRight with integer addition from 0 return the sum
SumOfAll ==
    (op \in ReduceMethods /\ pc = "returned" /\ cb.name = "add" /\ initValue = 0)
        => ret.val = Sum(entry)

\* the fold that returned agrees with the fold in the other direction
FoldsAgree ==
    /\ Returned("reduce") => ret.val = reduceRightOf(entry, cb, initValue)
    /\ Returned("reduceRight") => ret.val = reduceOf(entry, cb, initValue)

\* C17 as stated: reduce(S, add, 0) is the sum of S, and reduceRight(S, f, 0)
\* equals reduce(S, f, 0) whenever the combining callback f is commutative.
C17_FoldsAgreeIfCommutative ==
    /\ SumOfAll
    /\ (op \in ReduceMethods /\ Commutative(cb) /\ initValue = 0) => FoldsAgree

\* C17, amended: reduce(S, add, 0) is the sum of S for integer addition,
\* and reduceRight(S, f, v) equals reduce(S, f, v) whenever the combining
\* callback f is commutative and associative.
C17_FoldsAgree ==
    /\ SumOfAll
    /\ (op \in ReduceMethods /\ Commutative(cb) /\ Associative(cb)) => FoldsAgree

\* reduceRight summed [3,1,2] to 6 as reduce does, and the two folds of
\* the same sequence by acc * 2 + x, which is not commutative, differ
C17_Witness ==
    /\ Returned("reduceRight")
    /\ cb.name = "add"
    /\ initValue = 0
    /\ entry = <<3, 1, 2>>
    /\ ret.val = 6
    /\ reduceOf(entry, cb, 0) = 6
    /\ ~Commutative([name |-> "horner", arity |-> 2])
    /\ reduceOf(entry, [name |-> "horner", arity |-> 2], 0)
          # reduceRightOf(entry, [name |-> "horner", arity |-> 2], 0)

(***************************************************************************)
(* Order of the visits, the source, completion                             *)
(***************************************************************************)
\* C18: forEach, map and filter invoke the callback exactly once for each
\* index of the sequence in strictly ascending order: the k-th invocation
\* is for index k-1 and is passed the element at that index, the loop has
\* made exactly i invocations when it is at index i, and at the return every
\* index of the sequence has been visited.
C18_OncePerIndexAscending ==
    (op \in {"forEach", "map", "filter"} /\ pc # "undefined") =>
        /\ Len(calls) = i
        /\ i <= size(self)
        /\ \A k \in 1..Len(calls) :
              /\ calls[k].at = k - 1
              /\ calls[k].args[1] = heap[self][k]
        /\ pc = "returned" => Len(calls) = size(self)

C18_Witness ==
    /\ Returned("filter")
    /\ cb.name = "evenIndex"
    /\ entry = <<3, 1, 2>>
    /\ Len(calls) = 3
    /\ calls[1].args = <<3, 0>>
    /\ calls[2].args = <<1, 1>>
    /\ calls[3].args = <<2, 2>>

\* while a traversal runs and when it has returned, the sequence it was
\* called on is what it was at the call
C19_Kept == op \in Traversals => heap[self] = entry

\* a step that gives a non-empty sequence other non-empty contents is a
\* step of sort on that sequence, and it permutes the elements
C19_OnlySort ==
    \A o \in Objects :
        (heap[o] # <<>> /\ heap'[o] # <<>> /\ heap'[o] # heap[o]) =>
            /\ op' = "sort"
            /\ o = self'
            /\ pc' = "returned" => IsPermutation(heap'[o], heap[o])

\* C19: map, forEach, filter, every, some, reduce and reduceRight leave the
\* source unchanged (same length, same elements, same order after they
\* return), and only sort changes the order of the sequence it is called on.
C19_SourceUnchanged == []C19_Kept /\ [][C19_OnlySort]_vars

C19_Witness ==
    /\ Returned("map")
    /\ cb.name = "addIndex"
    /\ entry = <<3, 1, 2>>
    /\ heap[self] = <<3, 1, 2>>
    /\ heap[ret.id] = <<3, 2, 4>>

\* C20: every traversal runs to completion: it does not end up anywhere but
\* at its return, and it returns after at most N invocations of the
\* callback for a sequence that had length N when the method was called.
C20_Completes ==
    op \in Traversals =>
        /\ pc \in {"loop", "exited", "returned"}
        /\ pc = "returned" => Len(calls) <= N

\* forEach returned after more invocations than the sequence had elements
C20_Witness ==
    /\ Returned("forEach")
    /\ cb = Appender
    /\ entry = <<2>>
    /\ Len(calls) > 1
    /\ Len(calls) = size(self)

(***************************************************************************)
(* The callable                                                            *)
(***************************************************************************)
\* every invocation logged ran on a copy equal to the callable the caller
\* passed and returned what that callable returns for the arguments, and
\* the method's own callable is still that callable
C21_FreshCopy ==
    op \in Traversals =>
        /\ cb = caller
        /\ \A k \in 1..Len(calls) :
              /\ calls[k].fn = caller
              /\ calls[k].val = Body(caller, calls[k].args)

\* no step of a method changes the caller's callable object
C21_CallerKept == (pc # "idle" /\ pc' # "idle") => caller' = caller

\* C21: the callable is copied afresh for every element visit: each
\* invocation of map, forEach, filter, every, some, reduce and reduceRight
\* runs on a new copy of the callable as it was passed, what the callable
\* changes inside itself in one invocation is not seen by the next, and the
\* caller's own callable is unchanged when the method returns.
C21_CopiedPerVisit == []C21_FreshCopy /\ [][C21_CallerKept]_vars

\* map with a counting callable returned 1 for every element
C21_Witness ==
    /\ Returned("map")
    /\ cb.name = "counter"
    /\ entry = <<3, 1, 2>>
    /\ Len(calls) = 3
    /\ calls[3].fn.n = 0
    /\ heap[ret.id] = <<1, 1, 1>>
    /\ caller.n = 0

\* an invocation that left by an exception is the last one logged and the
\* program was terminated there; a terminated program returned nothing and
\* left every object as it was when the method was called
C22_TerminatedThere ==
    /\ \A k \in 1..Len(calls) :
          calls[k].threw => k = Len(calls) /\ pc = "terminated"
    /\ pc = "terminated" =>
          /\ ret.kind = "none"
          /\ heap[self] = entry
          /\ op \notin {"sort", "toSorted"} => calls # <<>> /\ calls[Len(calls)].threw
          /\ op # "sort" => heap[Other(self)] = <<>>
          /\ op \in {"sort", "toSorted"} => SortThrows(self, cb)

\* nothing follows the termination, and an invocation that is about to
\* leave by an exception is followed by nothing but the termination
C22_NothingAfter ==
    /\ pc = "terminated" => UNCHANGED vars
    /\ (pc = "idle" /\ op' \in {"sort", "toSorted"} /\ SortThrows(self', cb'))
          => pc' = "terminated"

\* C22: an exception raised by the callback never propagates to the caller
\* of map, filter, every, some, reduce, reduceRight, sort(cmp),
\* toSorted(cmp) or forEach: the program is terminated at the failing
\* invocation, no result is returned and no later element is visited.
C22_NeverPropagates == []C22_TerminatedThere /\ [][C22_NothingAfter]_vars

\* forEach visited 3, then 1, where the callback threw
C22_Witness ==
    /\ pc = "terminated"
    /\ op = "forEach"
    /\ entry = <<3, 1, 2>>
    /\ Len(calls) = 2
    /\ calls[2].args = <<1>>
    /\ calls[2].threw
    /\ ret.kind = "none"


=============================================================================
